---- MODULE Spec2Model ----
(***************************************************************************)
(* ATR Box Scalping tool (streamlit_scalping_app.py).                      *)
(*                                                                         *)
(* Prices are integer ticks.  A pandas NaN is the record NaN; an ATR that  *)
(* is a number is the exact rational num/den.  Python's None is the record *)
(* None; an error message is the record Err(text).  Log entries omit the   *)
(* wall-clock time stamp that log_message prefixes.                        *)
(***************************************************************************)
EXTENDS Integers, Sequences, FiniteSets, TLC

VARIABLES daily_data,   \* response of yf.download(symbol, '1mo', '1d')
          data_5min,    \* response of yf.download(symbol, '5d', '5m')
          today,        \* datetime.now().date() during the evaluation
          result,       \* first component of fetch_and_analyze's return value
          error,        \* second component of fetch_and_analyze's return value
          logs,         \* st.session_state.logs
          last_update,  \* st.session_state.last_update
          shown,        \* what the main content area rendered
          candles,      \* the pair (prev_candle, curr_candle) given to the detectors
          patterns      \* what the three detectors returned for that pair

vars == <<daily_data, data_5min, today, result, error, logs, last_update, shown,
          candles, patterns>>

----------------------------------------------------------------------------
(* Program constants                                                       *)

ATR_PERIOD == 14
BOX_BARS == 3
MIN_SESSION_BARS == 4
LOG_CAP == 50
BOX_ATR_DEN == 4
HAMMER_LOWER_FACTOR == 2
HAMMER_UPPER_NUM == 3
HAMMER_UPPER_DEN == 10

----------------------------------------------------------------------------
(* Bounds of the model                                                     *)

MinDaily == 13
MaxDaily == 15
MaxDate == 2
MinBars == 2
MaxBars == 5
MaxBoxWidth == 2
MaxLogged == 2

----------------------------------------------------------------------------
(* Values                                                                  *)

None == [None |-> TRUE]

Err(text) == [message |-> text]

NaN == [nan |-> TRUE, num |-> 0, den |-> 1]

Max2(a, b) == IF a >= b THEN a ELSE b

Min2(a, b) == IF a <= b THEN a ELSE b

Abs(a) == IF a >= 0 THEN a ELSE 0 - a

RECURSIVE SeqMaxHigh(_)
SeqMaxHigh(s) ==
    IF Len(s) = 1 THEN s[1].High ELSE Max2(s[1].High, SeqMaxHigh(Tail(s)))

RECURSIVE SeqMinLow(_)
SeqMinLow(s) ==
    IF Len(s) = 1 THEN s[1].Low ELSE Min2(s[1].Low, SeqMinLow(Tail(s)))

----------------------------------------------------------------------------
(* log_message                                                             *)

\* Mutant of log_message: the slice keeps one entry too few
log_message_OffByOne(lg, message) ==
    LET appended == Append(lg, message)
    IN  IF Len(appended) > LOG_CAP
        THEN SubSeq(appended, Len(appended) - LOG_CAP + 2, Len(appended))
        ELSE appended

log_message(lg, message) ==
    LET appended == Append(lg, message)
    IN  IF Len(appended) > LOG_CAP
        THEN SubSeq(appended, Len(appended) - LOG_CAP + 1, Len(appended))
        ELSE appended

RECURSIVE LogAll(_, _)
LogAll(lg, msgs) ==
    IF msgs = <<>> THEN lg ELSE LogAll(log_message(lg, Head(msgs)), Tail(msgs))

----------------------------------------------------------------------------
(* calculate_atr                                                           *)

\* tr = concat([tr1, tr2, tr3]).max(axis=1): close.shift() is NaN at the first
\* row and max skips NaN, so the first row's value is high - low.
TrueRange(data, i) ==
    IF i = 1
    THEN data[1].High - data[1].Low
    ELSE Max2(data[i].High - data[i].Low,
              Max2(Abs(data[i].High - data[i - 1].Close),
                   Abs(data[i].Low - data[i - 1].Close)))

RECURSIVE SumTR(_, _, _)
SumTR(data, from, to) ==
    IF from > to THEN 0 ELSE TrueRange(data, from) + SumTR(data, from + 1, to)

\* tr.rolling(window=period).mean().iloc[-1]: NaN until the window holds
\* period values, else the mean of the last period values of tr.
calculate_atr(data) ==
    IF Len(data) < ATR_PERIOD
    THEN NaN
    ELSE [nan |-> FALSE,
          num |-> SumTR(data, Len(data) - ATR_PERIOD + 1, Len(data)),
          den |-> ATR_PERIOD]

----------------------------------------------------------------------------
(* Candle patterns                                                         *)

\* Mutant of is_hammer: the body > 0 guard is missing
is_hammer_NoBodyGuard(candle) ==
    LET body == Abs(candle.Close - candle.Open)
        lower_shadow == Min2(candle.Open, candle.Close) - candle.Low
        upper_shadow == candle.High - Max2(candle.Open, candle.Close)
    IN  /\ lower_shadow > HAMMER_LOWER_FACTOR * body
        /\ HAMMER_UPPER_DEN * upper_shadow < HAMMER_UPPER_NUM * body

is_hammer(candle) ==
    LET body == Abs(candle.Close - candle.Open)
        lower_shadow == Min2(candle.Open, candle.Close) - candle.Low
        upper_shadow == candle.High - Max2(candle.Open, candle.Close)
    IN  /\ lower_shadow > HAMMER_LOWER_FACTOR * body
        /\ HAMMER_UPPER_DEN * upper_shadow < HAMMER_UPPER_NUM * body
        /\ body > 0

\* Mutant of is_bullish_engulfing: <= in the test of the previous candle
is_bullish_engulfing_PrevNotBullish(prev_candle, curr_candle) ==
    /\ prev_candle.Close <= prev_candle.Open
    /\ curr_candle.Close > curr_candle.Open
    /\ curr_candle.Open < prev_candle.Close
    /\ curr_candle.Close > prev_candle.Open

is_bullish_engulfing(prev_candle, curr_candle) ==
    /\ prev_candle.Close < prev_candle.Open
    /\ curr_candle.Close > curr_candle.Open
    /\ curr_candle.Open < prev_candle.Close
    /\ curr_candle.Close > prev_candle.Open

is_bearish_engulfing(prev_candle, curr_candle) ==
    /\ prev_candle.Close > prev_candle.Open
    /\ curr_candle.Close < curr_candle.Open
    /\ curr_candle.Open > prev_candle.Close
    /\ curr_candle.Close < prev_candle.Open

----------------------------------------------------------------------------
(* Session selection, box and signal of fetch_and_analyze                  *)

\* data_5min[data_5min.index.date == d]
Partition(data, d) == SelectSeq(data, LAMBDA bar : bar.time[1] = d)

\* set(data_5min.index.date)
UniqueDates(data) == {data[i].time[1] : i \in DOMAIN data}

\* sorted(set(available_dates), reverse=True)[0]
MostRecentDate(data) ==
    CHOOSE d \in UniqueDates(data) : \A e \in UniqueDates(data) : e <= d

\* Mutant of SelectSession: the fallback takes the most recent date that is
\* not after the wall-clock date, when there is one
SelectSession_FallbackUpToDay(data, day) ==
    LET todays == Partition(data, day)
        upTo == {d \in UniqueDates(data) : d <= day}
        chosen == IF upTo = {} THEN MostRecentDate(data)
                  ELSE CHOOSE d \in upTo : \A e \in upTo : e <= d
    IN  IF Len(todays) < MIN_SESSION_BARS
        THEN [failed |-> FALSE,
              today_data |-> Partition(data, chosen),
              is_live_data |-> FALSE,
              msgs |-> <<[text |-> "Market appears closed", arg |-> 0],
                         [text |-> "Showing data from", arg |-> chosen]>>]
        ELSE [failed |-> FALSE, today_data |-> todays, is_live_data |-> TRUE,
              msgs |-> <<>>]

\* Mutant of SelectSession: the fallback keeps is_live_data = True
SelectSession_StaysLive(data, day) ==
    LET todays == Partition(data, day)
    IN  IF Len(todays) < MIN_SESSION_BARS /\ UniqueDates(data) # {}
        THEN [failed |-> FALSE,
              today_data |-> Partition(data, MostRecentDate(data)),
              is_live_data |-> TRUE,
              msgs |-> <<[text |-> "Market appears closed", arg |-> 0],
                         [text |-> "Showing data from", arg |-> MostRecentDate(data)]>>]
        ELSE [failed |-> UniqueDates(data) = {}, today_data |-> todays,
              is_live_data |-> TRUE, msgs |-> <<>>]

SelectSession(data, day) ==
    LET todays == Partition(data, day)
    IN  IF Len(todays) < MIN_SESSION_BARS
        THEN IF UniqueDates(data) = {}
             THEN [failed |-> TRUE, today_data |-> todays, is_live_data |-> TRUE,
                   msgs |-> <<[text |-> "Market appears closed", arg |-> 0]>>]
             ELSE [failed |-> FALSE,
                   today_data |-> Partition(data, MostRecentDate(data)),
                   is_live_data |-> FALSE,
                   msgs |-> <<[text |-> "Market appears closed", arg |-> 0],
                              [text |-> "Showing data from", arg |-> MostRecentDate(data)]>>]
        ELSE [failed |-> FALSE, today_data |-> todays, is_live_data |-> TRUE,
              msgs |-> <<>>]

\* volatility_threshold = 0.25 * atr_value
VolatilityThreshold(atr_value) ==
    [nan |-> atr_value.nan, num |-> atr_value.num, den |-> BOX_ATR_DEN * atr_value.den]

\* Mutant of IsValidVolatility: <= in place of <
IsValidVolatility_Inclusive(box_range, threshold) ==
    /\ ~threshold.nan
    /\ box_range * threshold.den <= threshold.num

\* box_range < volatility_threshold; a comparison with NaN is False
IsValidVolatility(box_range, threshold) ==
    /\ ~threshold.nan
    /\ box_range * threshold.den < threshold.num

\* Mutant of ShortSignal: the target is put at the entry
ShortSignal_TargetAtEntry(kind, curr_candle, box_low) ==
    [direction |-> "SHORT", type |-> kind,
     entry |-> curr_candle.High, stop_loss |-> curr_candle.High,
     take_profit |-> curr_candle.High, candle_time |-> curr_candle.time]

\* Mutant of ShortSignal: the stop is put at the other extreme of the candle
ShortSignal_StopAtLow(kind, curr_candle, box_low) ==
    [direction |-> "SHORT", type |-> kind,
     entry |-> curr_candle.High, stop_loss |-> curr_candle.Low,
     take_profit |-> box_low, candle_time |-> curr_candle.time]

ShortSignal(kind, curr_candle, box_low) ==
    [direction |-> "SHORT", type |-> kind,
     entry |-> curr_candle.High, stop_loss |-> curr_candle.High,
     take_profit |-> box_low, candle_time |-> curr_candle.time]

\* Mutant of LongSignal: the target is put at the entry
LongSignal_TargetAtEntry(kind, curr_candle, box_high) ==
    [direction |-> "LONG", type |-> kind,
     entry |-> curr_candle.Low, stop_loss |-> curr_candle.Low,
     take_profit |-> curr_candle.Low, candle_time |-> curr_candle.time]

LongSignal(kind, curr_candle, box_high) ==
    [direction |-> "LONG", type |-> kind,
     entry |-> curr_candle.Low, stop_loss |-> curr_candle.Low,
     take_profit |-> box_high, candle_time |-> curr_candle.time]

\* Mutant of BreakoutDown: the engulfing test comes first
BreakoutDown_EngulfingFirst(prev_candle, curr_candle, box_high) ==
    IF is_bullish_engulfing(prev_candle, curr_candle)
    THEN LongSignal("Bullish Engulfing", curr_candle, box_high)
    ELSE IF is_hammer(curr_candle)
         THEN LongSignal("Hammer", curr_candle, box_high)
         ELSE None

\* The pattern tests of the breakout-down branch, in the order of the code
BreakoutDown(prev_candle, curr_candle, box_high) ==
    IF is_hammer(curr_candle)
    THEN LongSignal("Hammer", curr_candle, box_high)
    ELSE IF is_bullish_engulfing(prev_candle, curr_candle)
         THEN LongSignal("Bullish Engulfing", curr_candle, box_high)
         ELSE None

\* Mutant of BreakoutUp: the pattern test is dropped
BreakoutUp_NoPattern(prev_candle, curr_candle, box_low) ==
    ShortSignal("Bearish Engulfing", curr_candle, box_low)

BreakoutUp(prev_candle, curr_candle, box_low) ==
    IF is_bearish_engulfing(prev_candle, curr_candle)
    THEN ShortSignal("Bearish Engulfing", curr_candle, box_low)
    ELSE None

CheckSignals(today_data, box_high, box_low, current_price, is_valid_volatility) ==
    IF is_valid_volatility /\ Len(today_data) >= MIN_SESSION_BARS
    THEN LET prev_candle == today_data[Len(today_data) - 1]
             curr_candle == today_data[Len(today_data)]
         IN  IF current_price > box_high
             THEN BreakoutUp(prev_candle, curr_candle, box_low)
             ELSE IF current_price < box_low
                  THEN BreakoutDown(prev_candle, curr_candle, box_high)
                  ELSE None
    ELSE None

SignalMsgs(signal) ==
    IF signal = None THEN <<>> ELSE <<[text |-> signal.type, arg |-> 0]>>

\* The part of fetch_and_analyze after the session is selected
Analyze(atr_value, session) ==
    LET today_data == session.today_data
        box_data == SubSeq(today_data, 1, BOX_BARS)
        box_high == SeqMaxHigh(box_data)
        box_low == SeqMinLow(box_data)
        box_range == box_high - box_low
        volatility_threshold == VolatilityThreshold(atr_value)
        is_valid_volatility == IsValidVolatility(box_range, volatility_threshold)
        current_price == today_data[Len(today_data)].Close
        signal == CheckSignals(today_data, box_high, box_low, current_price,
                               is_valid_volatility)
    IN  [result |-> [atr |-> atr_value,
                     box_high |-> box_high,
                     box_low |-> box_low,
                     box_range |-> box_range,
                     volatility_threshold |-> volatility_threshold,
                     is_valid_volatility |-> is_valid_volatility,
                     current_price |-> current_price,
                     data |-> today_data,
                     is_live_data |-> session.is_live_data,
                     signal |-> signal],
         error |-> None,
         msgs |-> SignalMsgs(signal)]

\* Mutant of Failure: what was computed so far is returned with the error
Failure_PartialResult(text, msgs) ==
    [result |-> [atr |-> NaN], error |-> Err(text), msgs |-> msgs]

Failure(text, msgs) == [result |-> None, error |-> Err(text), msgs |-> msgs]

\* except Exception as e: log_message(f"Error: {str(e)}"); return None, str(e)
Raised(text, msgs) ==
    Failure(text, msgs \o <<[text |-> "Error", arg |-> text]>>)

\* The value returned by fetch_and_analyze and the messages it logs, in order
fetch_and_analyze(symbol, daily, intraday, day) ==
    LET fetching == <<[text |-> "Fetching data for", arg |-> symbol]>>
    IN  IF daily.raises THEN Raised("daily download failed", fetching)
        ELSE IF Len(daily.data) = 0 THEN Failure("No daily data received", fetching)
        ELSE
        LET atr_value == calculate_atr(daily.data)
            withAtr == fetching \o <<[text |-> "ATR(14) =", arg |-> atr_value]>>
        IN  IF intraday.raises THEN Raised("intraday download failed", withAtr)
            ELSE IF Len(intraday.data) = 0
                 THEN Failure("No 5-minute data received", withAtr)
            ELSE
            LET session == SelectSession(intraday.data, day)
                selected == withAtr \o session.msgs
            IN  IF session.failed
                THEN Failure("No historical data available", selected)
                ELSE IF Len(session.today_data) < MIN_SESSION_BARS
                     THEN Failure("Insufficient data available", selected)
                     ELSE LET done == Analyze(atr_value, session)
                          IN  [done EXCEPT !.msgs = selected \o done.msgs]

----------------------------------------------------------------------------
(* Responses of the data provider                                          *)

Symbols == {"SPY"}

\* Daily bars that open at the low and close at the high; the low alternates
\* by gap from one day to the next.
DailyShapes == {[amp |-> 8, gap |-> 0], [amp |-> 4, gap |-> 8]}

DailySeries(n, shape) ==
    [i \in 1..n |->
        LET low == 100 + shape.gap * (i % 2)
        IN  [Open |-> low, High |-> low + shape.amp, Low |-> low,
             Close |-> low + shape.amp]]

DailyLens == {0} \cup (MinDaily..MaxDaily)

DailyResponses ==
    {[raises |-> FALSE, data |-> DailySeries(n, shape)] :
        n \in DailyLens, shape \in DailyShapes}
    \cup {[raises |-> TRUE, data |-> <<>>]}

\* A bar of the opening range: the box spans 30 .. 30 + w
BoxBar(w) == [Open |-> 30, High |-> 30 + w, Low |-> 30, Close |-> 30 + w]

PrevCandles ==
    {[Open |-> 41, High |-> 42, Low |-> 41, Close |-> 42],   \* bullish, above the box
     [Open |-> 21, High |-> 21, Low |-> 20, Close |-> 20],   \* bearish, below the box
     [Open |-> 31, High |-> 31, Low |-> 30, Close |-> 30]}   \* bearish, inside the box

CurrCandles ==
    {[Open |-> 43, High |-> 44, Low |-> 40, Close |-> 40],   \* engulfs 41->42, above
     [Open |-> 40, High |-> 41, Low |-> 40, Close |-> 41],   \* above, no pattern
     [Open |-> 19, High |-> 22, Low |-> 12, Close |-> 22],   \* hammer, engulfs 21->20
     [Open |-> 19, High |-> 23, Low |-> 18, Close |-> 22],   \* engulfs 21->20, no hammer
     [Open |-> 21, High |-> 22, Low |-> 18, Close |-> 22],   \* hammer only
     [Open |-> 22, High |-> 22, Low |-> 21, Close |-> 21],   \* below, no pattern
     [Open |-> 20, High |-> 20, Low |-> 10, Close |-> 20],   \* below, no body
     [Open |-> 30, High |-> 31, Low |-> 30, Close |-> 30],   \* close on box_low
     [Open |-> 30, High |-> 31, Low |-> 27, Close |-> 31]}   \* hammer, close inside or on box_high

Stamp(d, k, candle) ==
    [time |-> <<d, k>>, Open |-> candle.Open, High |-> candle.High,
     Low |-> candle.Low, Close |-> candle.Close]

\* The c bars of date d: the last is curr, the one before it prev, the others
\* are bars of the opening range, one tick wider on each later date.
Session(d, c, w, prev, curr) ==
    [k \in 1..c |->
        Stamp(d, k, IF k = c THEN curr
                    ELSE IF k = c - 1 THEN prev
                    ELSE BoxBar(w + d - 1))]

BarCounts == {0} \cup (MinBars..MaxBars)

RECURSIVE Sessions(_, _, _, _, _)
Sessions(d, cnt, w, prev, curr) ==
    IF d > MaxDate THEN <<>>
    ELSE Session(d, cnt[d], w, prev, curr) \o Sessions(d + 1, cnt, w, prev, curr)

IntradayResponses ==
    {[raises |-> FALSE, data |-> Sessions(1, cnt, w, prev, curr)] :
        cnt \in [1..MaxDate -> BarCounts], w \in 1..MaxBoxWidth,
        prev \in PrevCandles, curr \in CurrCandles}
    \cup {[raises |-> TRUE, data |-> <<>>]}

\* The wall-clock date may lie after the last date of the series
Days == 1..(MaxDate + 1)

----------------------------------------------------------------------------
(* The script                                                              *)

\* The value of a local of fetch_and_analyze that the call did not assign
Unassigned == <<>>

NoDay == 0

Init ==
    /\ daily_data = Unassigned
    /\ data_5min = Unassigned
    /\ today = NoDay
    /\ result = None
    /\ error = None
    /\ logs = <<>>
    /\ last_update = None
    /\ shown = "nothing"
    /\ candles = None
    /\ patterns = None

\* The call reached data_5min = yf.download(...) and it returned
IntradayFetched(daily, intraday) ==
    ~daily.raises /\ Len(daily.data) > 0 /\ ~intraday.raises

\* Main content area: result, error = fetch_and_analyze(symbol.upper()), then
\* the error box if error, else the dashboard if result.
MainContent(symbol, daily, intraday, day) ==
    LET ret == fetch_and_analyze(symbol, daily, intraday, day)
    IN  /\ daily_data' = IF daily.raises THEN Unassigned ELSE daily.data
        /\ data_5min' = IF IntradayFetched(daily, intraday)
                        THEN intraday.data ELSE Unassigned
        /\ today' = IF IntradayFetched(daily, intraday) /\ Len(intraday.data) > 0
                    THEN day ELSE NoDay
        /\ result' = ret.result
        /\ error' = ret.error
        /\ logs' = LogAll(logs, ret.msgs)
        /\ shown' = IF ret.error # None THEN "error"
                    ELSE IF ret.result # None THEN "result" ELSE "nothing"
        /\ UNCHANGED <<candles, patterns>>

\* The "Start Analysis" button, rendered while last_update is not set
StartAnalysis ==
    /\ last_update = None
    /\ Len(logs) < MaxLogged
    /\ \E symbol \in Symbols, daily \in DailyResponses,
          intraday \in IntradayResponses, day \in Days :
          MainContent(symbol, daily, intraday, day)
    /\ UNCHANGED last_update

\* The "Refresh" button: sets last_update to datetime.now() and reruns the
\* script, whose main content area then evaluates
Refresh ==
    /\ Len(logs) < MaxLogged
    /\ \E symbol \in Symbols, daily \in DailyResponses,
          intraday \in IntradayResponses, day \in Days :
          /\ last_update' = [now |-> TRUE]
          /\ MainContent(symbol, daily, intraday, day)

Next == StartAnalysis \/ Refresh

Spec == Init /\ [][Next]_vars

----------------------------------------------------------------------------
(* Properties of an evaluation                                             *)

\* The last two bars of the session a returned result was computed on
CurrOf(res) == res.data[Len(res.data)]

PrevOf(res) == res.data[Len(res.data) - 1]

\* box_range >= 0.25 * atr, for an ATR that is a number
RangeAtLeastQuarterATR(res) ==
    /\ ~res.atr.nan
    /\ res.box_range * BOX_ATR_DEN * res.atr.den >= res.atr.num

\* C1: a SHORT signal is emitted only when the last close is strictly above
\* box_high and the last two bars are a bearish engulfing; a LONG signal only
\* when the last close is strictly below box_low and the last bar is a hammer
\* or the last two bars are a bullish engulfing; a close inside the box
\* (box_low <= close <= box_high) never gives a signal.
C1_SignalNeedsBreakoutAndPattern ==
    result # None =>
        LET sig == result.signal
            close == CurrOf(result).Close
        IN  /\ (sig # None /\ sig.direction = "SHORT") =>
                   /\ close > result.box_high
                   /\ is_bearish_engulfing(PrevOf(result), CurrOf(result))
            /\ (sig # None /\ sig.direction = "LONG") =>
                   /\ close < result.box_low
                   /\ \/ is_hammer(CurrOf(result))
                      \/ is_bullish_engulfing(PrevOf(result), CurrOf(result))
            /\ (result.box_low <= close /\ close <= result.box_high) => sig = None
            /\ sig # None => sig.direction \in {"SHORT", "LONG"}

C1_Witness ==
    /\ result # None
    /\ result.signal # None
    /\ result.signal.direction = "SHORT"
    /\ CurrOf(result).Close > result.box_high

\* C2: when the range of the box (max High minus min Low of the first three
\* bars of the selected session) is at least a quarter of the ATR, the
\* evaluation emits no signal.
C2_WideBoxNoSignal ==
    (result # None /\ RangeAtLeastQuarterATR(result)) =>
        /\ result.signal = None
        /\ result.box_range =
               SeqMaxHigh(SubSeq(result.data, 1, BOX_BARS))
               - SeqMinLow(SubSeq(result.data, 1, BOX_BARS))

\* A wide box met by a hammer below it
C2_Witness ==
    /\ result # None
    /\ RangeAtLeastQuarterATR(result)
    /\ CurrOf(result).Close < result.box_low
    /\ is_hammer(CurrOf(result))

\* Every call of fetch_and_analyze logs "Fetching data for ..." first
Evaluated == logs # <<>>

\* The dates whose partition reaches the floor of four bars
UsableDates(data) ==
    {d \in UniqueDates(data) : Len(Partition(data, d)) >= MIN_SESSION_BARS}

MostRecentUsableDate(data) ==
    CHOOSE d \in UsableDates(data) : \A e \in UsableDates(data) : e <= d

\* The call got as far as selecting a session from a non-empty series
SelectionRan == Evaluated /\ today # NoDay

\* C3: when today's partition has fewer than four bars and some date has at
\* least four, the evaluation returns a historical result computed on the
\* most recent date that has at least four bars, the box being built from
\* that date's first three bars.
C3_FallsBackToUsableDate ==
    (/\ SelectionRan
     /\ Len(Partition(data_5min, today)) < MIN_SESSION_BARS
     /\ UsableDates(data_5min) # {}) =>
        /\ result # None
        /\ error = None
        /\ ~result.is_live_data
        /\ result.data = Partition(data_5min, MostRecentUsableDate(data_5min))
        /\ result.box_high = SeqMaxHigh(SubSeq(result.data, 1, BOX_BARS))
        /\ result.box_low = SeqMinLow(SubSeq(result.data, 1, BOX_BARS))

\* C4: a returned result is flagged live exactly when today's partition has
\* at least four bars, and a live result is computed on that partition.
C4_LiveIffTodayHasFourBars ==
    result # None =>
        /\ result.is_live_data <=>
               Len(Partition(data_5min, today)) >= MIN_SESSION_BARS
        /\ result.is_live_data => result.data = Partition(data_5min, today)

\* A live result although the series holds a later date than today
C4_Witness ==
    /\ result # None
    /\ result.is_live_data
    /\ \E d \in UniqueDates(data_5min) : d > today

\* C5: every signal has entry = stop_loss, both the High of the last bar for
\* a SHORT and its Low for a LONG.
C5_EntryIsStopLoss ==
    (result # None /\ result.signal # None) =>
        LET sig == result.signal
        IN  /\ sig.entry = sig.stop_loss
            /\ sig.direction = "SHORT" => sig.entry = CurrOf(result).High
            /\ sig.direction = "LONG" => sig.entry = CurrOf(result).Low
            /\ sig.type \in {"Hammer", "Bullish Engulfing", "Bearish Engulfing"}

C5_Witness ==
    /\ result # None
    /\ result.signal # None
    /\ result.signal.type = "Bearish Engulfing"
    /\ CurrOf(result).High # CurrOf(result).Low

\* C6: every signal has take_profit at the box boundary opposite to the
\* breakout: box_low for a SHORT, box_high for a LONG.
C6_TakeProfitIsOppositeBoundary ==
    (result # None /\ result.signal # None) =>
        LET sig == result.signal
        IN  /\ sig.direction = "SHORT" =>
                   /\ sig.take_profit = result.box_low
                   /\ CurrOf(result).Close > result.box_high
            /\ sig.direction = "LONG" =>
                   /\ sig.take_profit = result.box_high
                   /\ CurrOf(result).Close < result.box_low

C6_Witness ==
    /\ result # None
    /\ result.signal # None
    /\ result.signal.type = "Bullish Engulfing"
    /\ result.box_high > result.box_low

\* C7: in the breakout-down branch a hammer is reported as Hammer, also when
\* the last two bars are a bullish engulfing as well; the one signal of the
\* result then carries that single pattern.
C7_HammerBeforeEngulfing ==
    (/\ result # None
     /\ result.is_valid_volatility
     /\ CurrOf(result).Close < result.box_low
     /\ is_hammer(CurrOf(result))) =>
        /\ result.signal # None
        /\ result.signal.type = "Hammer"
        /\ result.signal.direction = "LONG"

C7_Witness ==
    /\ result # None
    /\ result.signal # None
    /\ result.signal.type = "Hammer"
    /\ is_bullish_engulfing(PrevOf(result), CurrOf(result))

\* The daily download returned (it did not raise)
DailyReturned == Evaluated /\ error # Err("daily download failed")

\* C8: an evaluation whose daily series has fewer than 15 bars (period + 1)
\* returns an error and no result, and the ATR of a series of 15 or more
\* bars is a number.
C8_FewerThan15DailyBarsFails ==
    DailyReturned =>
        /\ Len(daily_data) < ATR_PERIOD + 1 => (result = None /\ error # None)
        /\ (Len(daily_data) >= ATR_PERIOD + 1 /\ result # None) => ~result.atr.nan

\* The call got as far as the intraday download, and it returned
IntradayReturned ==
    /\ DailyReturned
    /\ daily_data # Unassigned
    /\ error # Err("intraday download failed")

\* C9: session selection fails exactly when no date of the intraday series
\* has at least four bars (an empty series included).
C9_SelectionFailsIffNoUsableDate ==
    IntradayReturned => ((result = None) <=> (UsableDates(data_5min) = {}))

ResultFields ==
    {"atr", "box_high", "box_low", "box_range", "volatility_threshold",
     "is_valid_volatility", "current_price", "data", "is_live_data", "signal"}

----------------------------------------------------------------------------
(* Re-evaluation of a frozen pair of series                                *)

MaxFrozenLogged == 6

\* A rerun of the script while last_update is set (the auto-refresh timer, or
\* any widget): the main content area evaluates again.  The provider returns
\* the series of the previous evaluation; the wall clock has moved freely.
FrozenRerun ==
    /\ last_update # None
    /\ today # NoDay
    /\ Len(logs) < MaxFrozenLogged
    /\ \E symbol \in Symbols, day \in Days :
          MainContent(symbol, [raises |-> FALSE, data |-> daily_data],
                      [raises |-> FALSE, data |-> data_5min], day)
    /\ UNCHANGED last_update

NextFrozen == Refresh \/ FrozenRerun

SpecFrozen == Init /\ [][NextFrozen]_vars

\* Two consecutive evaluations that selected a session from the same series
SameSeriesAgain ==
    /\ today # NoDay
    /\ today' # NoDay
    /\ daily_data' = daily_data
    /\ data_5min' = data_5min

----------------------------------------------------------------------------
(* The log on its own                                                      *)

MaxMessages == 53

LogTexts == {"Fetching data for", "Error"}

\* Messages are numbered in the order of the calls
NextNumber == IF logs = <<>> THEN 1 ELSE logs[Len(logs)].arg + 1

\* One call of log_message.  The callers log "Fetching data for" until the
\* first "Error", and "Error" from then on.
LogMessage ==
    /\ NextNumber <= MaxMessages
    /\ \E t \in LogTexts :
          /\ (logs # <<>> /\ logs[Len(logs)].text = "Error") => t = "Error"
          /\ logs' = log_message(logs, [text |-> t, arg |-> NextNumber])
    /\ UNCHANGED <<daily_data, data_5min, today, result, error, last_update, shown,
                   candles, patterns>>

SpecLog == Init /\ [][LogMessage]_vars

\* C12: after any sequence of log_message calls the log holds at most 50
\* entries, and they are the most recently appended messages in the order of
\* their appends: the last min(n, 50) of the n messages logged so far.
C12_LogKeepsLast50 ==
    /\ Len(logs) <= LOG_CAP
    /\ logs # <<>> =>
           LET n == logs[Len(logs)].arg
           IN  /\ Len(logs) = Min2(n, LOG_CAP)
               /\ \A i \in 1..Len(logs) : logs[i].arg = n - Len(logs) + i

\* The cap was exceeded and the oldest entries are gone
C12_Witness ==
    /\ Len(logs) = LOG_CAP
    /\ logs[1].arg > 1
    /\ logs[Len(logs)].arg = logs[1].arg + LOG_CAP - 1

----------------------------------------------------------------------------
(* The candle pattern detectors on their own                               *)

MaxPrice == 5

Prices == 1..MaxPrice

\* Candles of any shape, a High below the body or a Low above it included
AnyCandles ==
    {[time |-> <<1, 2>>, Open |-> o, High |-> h, Low |-> l, Close |-> c] :
        o \in Prices, h \in Prices, l \in Prices, c \in Prices}

\* The detectors read only Open and Close of the previous candle
BodyCandles ==
    {[time |-> <<1, 1>>, Open |-> o, High |-> Max2(o, c), Low |-> Min2(o, c),
      Close |-> c] : o \in Prices, c \in Prices}

\* The three detectors applied to one pair of candles
Classify ==
    /\ patterns = None
    /\ \E prev \in BodyCandles, curr \in AnyCandles :
          /\ candles' = [prev |-> prev, curr |-> curr]
          /\ patterns' = [hammer |-> is_hammer(curr),
                          bullish |-> is_bullish_engulfing(prev, curr),
                          bearish |-> is_bearish_engulfing(prev, curr)]
    /\ UNCHANGED <<daily_data, data_5min, today, result, error, logs,
                   last_update, shown>>

SpecPatterns == Init /\ [][Classify]_vars

\* C13 (as claimed): when the previous candle is not bearish (close >= open)
\* neither engulfing detector returns true.
C13_NonBearishPrevNoEngulfing ==
    (patterns # None /\ candles.prev.Close >= candles.prev.Open) =>
        (~patterns.bullish /\ ~patterns.bearish)

\* C13 (amended): when the previous candle is not bearish (close >= open)
\* is_bullish_engulfing returns false, and when it is not bullish
\* (close <= open) is_bearish_engulfing returns false.
C13_EngulfingNeedsOppositePrev ==
    patterns # None =>
        /\ candles.prev.Close >= candles.prev.Open => ~patterns.bullish
        /\ candles.prev.Close <= candles.prev.Open => ~patterns.bearish

\* A rising candle that spans a previous candle without body
C13_Witness ==
    /\ patterns # None
    /\ candles.prev.Close = candles.prev.Open
    /\ candles.curr.Open < candles.prev.Close
    /\ candles.curr.Close > candles.prev.Open

\* C14: for a current candle with open = close none of the three detectors
\* returns true, so neither breakout branch yields a signal for it.
C14_NoBodyNoPattern ==
    (patterns # None /\ candles.curr.Open = candles.curr.Close) =>
        /\ ~patterns.hammer
        /\ ~patterns.bullish
        /\ ~patterns.bearish
        /\ BreakoutDown(candles.prev, candles.curr, candles.curr.High) = None
        /\ BreakoutUp(candles.prev, candles.curr, candles.curr.Low) = None

\* A candle without body and with a long lower shadow
C14_Witness ==
    /\ patterns # None
    /\ candles.curr.Open = candles.curr.Close
    /\ candles.curr.High = candles.curr.Open
    /\ candles.curr.Open - candles.curr.Low >= 3

----------------------------------------------------------------------------
(* The ATR as an average of True Range                                     *)

\* True Range of the bar at position i >= 2, which has a previous close
TrueRangeWithPrevClose(data, i) ==
    Max2(data[i].High - data[i].Low,
         Max2(Abs(data[i].High - data[i - 1].Close),
              Abs(data[i].Low - data[i - 1].Close)))

RECURSIVE SumTrueRangeWithPrevClose(_, _, _)
SumTrueRangeWithPrevClose(data, from, to) ==
    IF from > to THEN 0
    ELSE TrueRangeWithPrevClose(data, from)
         + SumTrueRangeWithPrevClose(data, from + 1, to)

\* C15: an ATR that calculate_atr returns as a number is the mean of the True
\* Range of the last 14 daily bars, none of which is the first bar of the
\* series (the first bar has no previous close, hence no True Range).
C15_ATRAveragesBarsWithPrevClose ==
    (result # None /\ ~result.atr.nan) =>
        LET n == Len(daily_data)
        IN  /\ n - ATR_PERIOD + 1 >= 2
            /\ result.atr.den = ATR_PERIOD
            /\ result.atr.num =
                   SumTrueRangeWithPrevClose(daily_data, n - ATR_PERIOD + 1, n)

----------------------------------------------------------------------------
(* Geometry of a signal                                                    *)

WellFormed(bar) ==
    /\ bar.Low <= bar.Open /\ bar.Open <= bar.High
    /\ bar.Low <= bar.Close /\ bar.Close <= bar.High

\* C16: on well-formed bars a LONG signal has take_profit strictly above its
\* entry and a SHORT signal strictly below, and the triggering bar is the last
\* bar of a session of at least four bars, never one of the three bars of
\* the box.
C16_TargetOnProfitableSide ==
    (/\ result # None
     /\ result.signal # None
     /\ \A i \in DOMAIN result.data : WellFormed(result.data[i])) =>
        LET sig == result.signal
        IN  /\ sig.direction = "LONG" => sig.take_profit > sig.entry
            /\ sig.direction = "SHORT" => sig.take_profit < sig.entry
            /\ Len(result.data) >= MIN_SESSION_BARS
            /\ sig.candle_time = CurrOf(result).time
            /\ \A i \in 1..BOX_BARS : result.data[i].time # sig.candle_time

\* A hammer on the fourth bar, right after the box
C16_Witness ==
    /\ result # None
    /\ result.signal # None
    /\ result.signal.direction = "LONG"
    /\ Len(result.data) = MIN_SESSION_BARS
    /\ \A i \in DOMAIN result.data : WellFormed(result.data[i])
    /\ result.signal.take_profit > result.signal.entry

====
